---- MODULE Spec2Model ----
(***************************************************************************)
(* Model of the surveyor API server (index.js): the POST /items/:uuid      *)
(* step-submission pipeline, the locations table with its conditional      *)
(* upsert, and the WebSocket broadcast to connected observers.             *)
(***************************************************************************)
EXTENDS Integers, Sequences, FiniteSets, TLC

VARIABLES
    locations,   \* the rows of table public.locations (a set of records)
    req,         \* per request slot: where the POST handler is, what it holds
    clients,     \* wss.clients: connected sockets, in the order they connected
    readyState,  \* per observer socket: "NONE", "OPEN" or "CLOSING"
    received,    \* per observer: the messages delivered on its socket
    now,         \* database clock (current_timestamp), ticks per statement
    nreq,        \* number of POST requests accepted so far
    alive,       \* the node process is running
    listing,     \* the response of the latest GET /locations or /locations/latest
    issued       \* the response of the latest GET /items/:uuid

vars == <<locations, req, clients, readyState, received, now, nreq, alive,
          listing, issued>>


(* ------------------------------ bounds --------------------------------- *)

\* requests accepted in a run of Spec, and in a run of SpecWide
MaxRequests == 2
MaxPosts == 1

(* --------------------------- JavaScript values ------------------------- *)

Undefined == [t |-> "undefined"]
Null == [t |-> "null"]
\* a number n/2, so that 1.5 is representable with integers
Num(twice) == [t |-> "num", twice |-> twice]
Str(s) == [t |-> "str", s |-> s]
Obj(id) == [t |-> "obj", id |-> id]
Bool(b) == [t |-> "bool", b |-> b]

\* ToBoolean, as used by !x, x && y, if (x)
Truthy(v) ==
    CASE v.t = "undefined" -> FALSE
      [] v.t = "null" -> FALSE
      [] v.t = "num" -> v.twice # 0
      [] v.t = "str" -> v.s # ""
      [] v.t = "bool" -> v.b
      [] OTHER -> TRUE

\* v >= 0 with ToNumber coercion: null and "" become 0, undefined, objects
\* and non-numeric strings become NaN, and every comparison with NaN is false
GeZero(v) ==
    CASE v.t = "undefined" -> FALSE
      [] v.t = "null" -> TRUE
      [] v.t = "num" -> v.twice >= 0
      [] v.t = "str" -> v.s = ""
      [] v.t = "bool" -> TRUE
      [] OTHER -> FALSE

\* JSON.stringify: the text of a value
Stringify(v) == [t |-> "text", json |-> v]

\* the json/jsonb input function of the database: the value of a text
JsonIn(text) == text.json

(* --------------------------- catalog and key --------------------------- *)

\* items: the catalog loaded at startup, uuid -> item
items ==
    [u \in {"abc-123", "def-456"} |->
        [uuid |-> u, imageID |-> IF u = "abc-123" THEN "img-1" ELSE "img-2"]]

\* items[uuid] is truthy
HasItem(uuid) == uuid \in DOMAIN items

\* KEY: the server's signing key
KEY == "server-key"

\* jwt.sign({session: session}, KEY)
Sign(session, key) == [t |-> "token", session |-> session, sig |-> key]

\* a jwt.verify that accepts every signature
VerifyAcceptsAll(token) == FALSE

\* jwt.verify(token, KEY): err when the signature was not made with KEY
VerifyFails(token) == token.sig # KEY


(* ------------------------ geometry (geojsonhint, turf) ----------------- *)

\* a GeoJSON Point geometry object
Point(coordinates) == [t |-> "obj", type |-> "Point", coordinates |-> coordinates]

\* geojsonhint.hint(feature): the messages for the feature's structure; the
\* feature needs the type member "Feature", its geometry a known type and a
\* position of at least two numbers
GeojsonHint(ftype, geometry) ==
    (IF ftype = "Feature" THEN <<>> ELSE <<"bad feature type">>)
    \o (IF geometry.type = "Point" THEN <<>> ELSE <<"bad geometry type">>)
    \o (IF Len(geometry.coordinates) >= 2 THEN <<>> ELSE <<"position too short">>)

\* turf.centroid(geometry).geometry.coordinates.join(','): for a Point the
\* point itself, as the text "x,y"
CentroidText(geometry) ==
    [t |-> "text", text |-> <<geometry.coordinates[1], ",", geometry.coordinates[2]>>]

\* the point input function of the database: the point of the text "x,y"
PointIn(c) == [t |-> "point", x |-> c.text[1], y |-> c.text[3]]

(* ------------------------- POST /items/:uuid --------------------------- *)

\* the row literal the handler starts from
EmptyRow(uuid) ==
    [uuid |-> uuid, session |-> Null, step |-> Null, step_index |-> Null,
     image_id |-> Null, completed |-> Null, data |-> Null, client |-> Null,
     geometry |-> Null, centroid |-> Null]

\* checkToken: 401 without a header or when jwt.verify fails
CheckToken(authorization) ==
    IF ~Truthy(authorization) THEN [status |-> 401, session |-> Undefined]
    ELSE IF VerifyFails(authorization) THEN [status |-> 401, session |-> Undefined]
    ELSE [status |-> 0, session |-> Str(authorization.session)]

\* feature.properties.step && feature.properties.stepIndex >= 0
StepPresent(step, stepIndex) == Truthy(step) /\ GeZero(stepIndex)

\* the else branch's test, feature.properties.data || feature.properties.data
\* (the geometry is not looked at)
NotCompletedHasPayload(data, geometry) == Truthy(data) \/ Truthy(data)

\* the completed/data branch without its test of the data of a completed step
CompletedCheckNoData(completed, data, geometry) ==
    IF Truthy(completed) THEN 0
    ELSE (IF NotCompletedHasPayload(data, geometry) THEN 406 ELSE 0)

\* the completed/data branch: the status to reject with, or 0
CompletedCheck(completed, data, geometry) ==
    IF Truthy(completed)
    THEN (IF ~Truthy(data) THEN 406 ELSE 0)
    ELSE (IF NotCompletedHasPayload(data, geometry) THEN 406 ELSE 0)

\* the geometry branch: the status to reject with, or 0
GeometryCheck(ftype, geometry) ==
    IF Truthy(geometry) /\ Len(GeojsonHint(ftype, geometry)) > 0 THEN 406 ELSE 0

\* the row handed to executeQuery when every check has passed
BuildRow(in, session) ==
    [uuid |-> in.uuid,
     session |-> session,
     step |-> in.step,
     step_index |-> in.stepIndex,
     image_id |-> Str(items[in.uuid].imageID),
     completed |-> Bool(Truthy(in.completed)),
     data |-> IF Truthy(in.completed) THEN Stringify(in.data) ELSE Null,
     client |-> Stringify([t |-> "obj", ip |-> in.ip]),
     geometry |-> IF Truthy(in.geometry) THEN Stringify(in.geometry) ELSE Null,
     centroid |-> IF Truthy(in.geometry) THEN CentroidText(in.geometry) ELSE Null]

\* a response that ends the handler (res.status(...).send, then return)
Reject(status, session, uuid) ==
    [status |-> status, query |-> FALSE, session |-> session, row |-> EmptyRow(uuid)]

\* the handler without the return after the 406 of the completed/data
\* branch: it answers 406 and goes on to executeQuery
HandlePostFallsThrough(in) ==
    LET auth == CheckToken(in.authorization) IN
    IF auth.status # 0 THEN Reject(401, Undefined, in.uuid)
    ELSE IF ~HasItem(in.uuid) THEN Reject(404, auth.session, in.uuid)
    ELSE IF ~StepPresent(in.step, in.stepIndex) THEN Reject(406, auth.session, in.uuid)
    ELSE IF GeometryCheck(in.ftype, in.geometry) # 0
    THEN Reject(406, auth.session, in.uuid)
    ELSE [status |-> CompletedCheck(in.completed, in.data, in.geometry),
          query |-> TRUE, session |-> auth.session,
          row |-> BuildRow(in, auth.session)]

\* checkToken, then the route handler up to its call of executeQuery: the
\* status it has answered with (0: none yet), whether executeQuery was
\* called, and the row it was called with
HandlePost(in) ==
    LET auth == CheckToken(in.authorization) IN
    IF auth.status # 0 THEN Reject(401, Undefined, in.uuid)
    ELSE IF ~HasItem(in.uuid) THEN Reject(404, auth.session, in.uuid)
    ELSE IF ~StepPresent(in.step, in.stepIndex) THEN Reject(406, auth.session, in.uuid)
    ELSE IF CompletedCheck(in.completed, in.data, in.geometry) # 0
    THEN Reject(406, auth.session, in.uuid)
    ELSE IF GeometryCheck(in.ftype, in.geometry) # 0
    THEN Reject(406, auth.session, in.uuid)
    ELSE [status |-> 0, query |-> TRUE, session |-> auth.session,
          row |-> BuildRow(in, auth.session)]

(* --------------------------- table locations --------------------------- *)

IsNull(v) == v.t = "null"

\* what the INSERT raises before any conflict handling: a NULL in a NOT NULL
\* column (uuid, session, step, step_index, completed), or a step_index that
\* is no integer
InsertError(row) ==
    \/ ~Truthy(row.session)
    \/ IsNull(row.step)
    \/ IsNull(row.completed)
    \/ IsNull(row.step_index) \/ row.step_index.t = "undefined"
    \/ row.step_index.t # "num"
    \/ row.step_index.twice % 2 # 0

\* the tuple proposed for insertion: the values in their column types, the
\* two dates at their default
Proposed(row, ts) ==
    [uuid |-> row.uuid,
     session |-> row.session.s,
     step |-> row.step.s,
     step_index |-> row.step_index.twice \div 2,
     completed |-> row.completed.b,
     image_id |-> row.image_id,
     date_created |-> ts,
     date_modified |-> ts,
     data |-> IF IsNull(row.data) THEN Null ELSE JsonIn(row.data),
     client |-> IF IsNull(row.client) THEN Null ELSE JsonIn(row.client),
     geometry |-> IF IsNull(row.geometry) THEN Null ELSE JsonIn(row.geometry),
     centroid |-> IF IsNull(row.centroid) THEN Null ELSE PointIn(row.centroid)]

\* a key that does not include the session
SameKeyAnySession(a, b) == a.uuid = b.uuid /\ a.step = b.step

\* CONSTRAINT locations_pkey PRIMARY KEY (uuid, session, step)
SameKey(a, b) == a.uuid = b.uuid /\ a.session = b.session /\ a.step = b.step

\* ON CONFLICT (uuid, session, step) WHERE NOT completed: the predicate only
\* takes part in choosing the arbiter index; the primary key is not a partial
\* index, so it arbitrates for every existing row, completed or not
Arbitrates(existing) == TRUE

\* the DO UPDATE without its WHERE clause
UpdateWhereMissing(existing, excluded) == TRUE

\* the DO UPDATE with WHERE NOT locations.completed in place of its WHERE clause
UpdateWhereNotDone(existing, excluded) == ~existing.completed

\* DO UPDATE ... WHERE EXCLUDED.completed
UpdateWhere(existing, excluded) == excluded.completed

\* the DO UPDATE SET list without its geometry and centroid columns
UpdateSetNoGeometry(existing, excluded, ts) ==
    [existing EXCEPT !.step_index = excluded.step_index,
                     !.completed = excluded.completed,
                     !.date_modified = ts,
                     !.data = excluded.data,
                     !.client = excluded.client]

\* DO UPDATE SET ...
UpdateSet(existing, excluded, ts) ==
    [existing EXCEPT !.step_index = excluded.step_index,
                     !.completed = excluded.completed,
                     !.date_modified = ts,
                     !.data = excluded.data,
                     !.client = excluded.client,
                     !.geometry = excluded.geometry,
                     !.centroid = excluded.centroid]

\* the row of the table with the key of a tuple, as a set (empty or one row)
Conflicting(tbl, new) == {e \in tbl : SameKey(e, new) /\ Arbitrates(e)}

\* the INSERT ... ON CONFLICT ... DO UPDATE statement, as one atomic step on
\* the table
Upsert(tbl, row, ts) ==
    LET new == Proposed(row, ts)
        hit == Conflicting(tbl, new)
    IN IF hit = {} THEN tbl \cup {new}
       ELSE (tbl \ hit)
            \cup {IF UpdateWhere(e, new) THEN UpdateSet(e, new, ts) ELSE e : e \in hit}

(* ------------------------------ broadcast ------------------------------ *)

\* locationToFeature
locationToFeature(row) ==
    [type |-> "Feature",
     properties |-> [uuid |-> row.uuid,
                     imageId |-> row.image_id,
                     step |-> row.step,
                     completed |-> row.completed,
                     url |-> <<"http://digitalcollections.nypl.org/items/", row.uuid>>,
                     data |-> row.data],
     geometry |-> row.geometry]

\* the message emitEvent sends for the row of the commit callback, which is
\* Object.assign(row, {data: feature.properties.data, geometry: feature.geometry})
EventMessage(row, in) ==
    Stringify(locationToFeature([row EXCEPT !.data = in.data, !.geometry = in.geometry]))

\* client.send(data) throws on a socket that is not open
SendThrows(state) == state # "OPEN"

\* a broadcast that puts the message in front of what an observer already
\* has received
RECURSIVE BroadcastPrepends(_, _, _, _)
BroadcastPrepends(cs, states, inbox, data) ==
    IF cs = <<>> THEN [received |-> inbox, threw |-> FALSE]
    ELSE IF SendThrows(states[Head(cs)]) THEN [received |-> inbox, threw |-> TRUE]
    ELSE BroadcastPrepends(Tail(cs), states,
                           [inbox EXCEPT ![Head(cs)] = <<data>> \o @], data)

\* wss.broadcast: clients.forEach(client.send), which stops at the first
\* send that throws; the inboxes afterwards and whether it threw
RECURSIVE Broadcast(_, _, _, _)
Broadcast(cs, states, inbox, data) ==
    IF cs = <<>> THEN [received |-> inbox, threw |-> FALSE]
    ELSE IF SendThrows(states[Head(cs)]) THEN [received |-> inbox, threw |-> TRUE]
    ELSE Broadcast(Tail(cs), states,
                   [inbox EXCEPT ![Head(cs)] = Append(@, data)], data)


(* ------------------------------- inputs -------------------------------- *)

Reqs == {"r1", "r2"}
Observers == {"o1"}
Sessions == {"s1", "s2"}

\* req.headers['x-forwarded-for'] || req.connection.remoteAddress
RemoteAddress(r) == IF r = "r1" THEN "10.0.0.1" ELSE "10.0.0.2"

\* Authorization headers: none, a token signed with another key, and the
\* tokens the server has issued
Headers ==
    {Undefined, Sign("s1", "other-key")} \cup {Sign(s, KEY) : s \in Sessions}

Feature(uuid, authorization, step, stepIndex, completed, data, geometry) ==
    [uuid |-> uuid, authorization |-> authorization, ftype |-> "Feature",
     step |-> step, stepIndex |-> stepIndex, completed |-> completed,
     data |-> data, geometry |-> geometry]

\* the (completed, data) pairs of a well-formed submission
Payloads ==
    {<<Bool(TRUE), Obj("d1")>>, <<Bool(TRUE), Obj("d2")>>, <<Bool(FALSE), Undefined>>}

\* submissions of session s1 on one step: every stepIndex, payload and
\* geometry of a well-formed submission, and a non-completed one with geometry
OwnInputs ==
    {Feature("abc-123", Sign("s1", KEY), Str("locate"), Num(2 * i), c[1], c[2], g) :
        i \in {0, 1}, c \in Payloads, g \in {Undefined, Point(<<1, 2>>)}}

\* submissions on another step or of another session
OtherInputs ==
    {Feature("abc-123", Sign("s1", KEY), Str("describe"), Num(2), Bool(TRUE),
             Obj("d1"), Undefined),
     Feature("abc-123", Sign("s2", KEY), Str("locate"), Num(0), Bool(FALSE),
             Undefined, Undefined)}

\* submissions the handler or the database refuses: no token, and a null
\* stepIndex
BadInputs ==
    {Feature("abc-123", Undefined, Str("locate"), Num(0), Bool(TRUE), Obj("d1"),
             Undefined),
     Feature("abc-123", Sign("s1", KEY), Str("locate"), Null, Bool(TRUE),
             Obj("d1"), Undefined)}

Inputs == OwnInputs \cup OtherInputs \cup BadInputs

\* the submissions of the validation runs: every header with every item id
\* and geometry, every step and stepIndex, every completed/data/geometry
WideInputs ==
    {Feature(u, a, Str("locate"), Num(0), Bool(TRUE), Obj("d1"), g) :
        u \in {"abc-123", "zzz-999"}, a \in Headers,
        g \in {Undefined, Point(<<1, 2>>), Point(<<1>>)}}
    \cup
    {Feature("abc-123", Sign("s1", KEY), st, ix, Bool(TRUE), Obj("d1"), Undefined) :
        st \in {Undefined, Str("locate")},
        ix \in {Undefined, Null, Num(-2), Num(0), Num(2), Num(3), Str("abc")}}
    \cup
    {Feature("abc-123", Sign("s1", KEY), Str("locate"), Num(2), c, d, g) :
        c \in {Bool(TRUE), Bool(FALSE)},
        d \in {Undefined, Null, Num(0), Obj("d1"), Obj("d2")},
        g \in {Undefined, Point(<<1, 2>>), Point(<<1>>)}}

(* ------------------------------- actions ------------------------------- *)

\* before any GET /locations and any GET /items/:uuid was answered
NoListing == [status |-> 0, rows |-> <<>>, body |-> Null]
NoneIssued == [status |-> 0, presented |-> Undefined, returned |-> Undefined,
               generated |-> ""]

Idle(r) ==
    [pc |-> "idle", in |-> Feature("", Undefined, Undefined, Undefined,
                                   Undefined, Undefined, Undefined),
     ip |-> RemoteAddress(r), session |-> Undefined, row |-> EmptyRow(""),
     err |-> FALSE, status |-> 0, prior |-> "none"]

Init ==
    /\ locations = {}
    /\ req = [r \in Reqs |-> Idle(r)]
    /\ clients = <<>>
    /\ readyState = [o \in Observers |-> "NONE"]
    /\ received = [o \in Observers |-> <<>>]
    /\ now = 0
    /\ nreq = 0
    /\ alive = TRUE
    /\ listing = NoListing
    /\ issued = NoneIssued

\* a request arrives: checkToken and the route handler run up to the
\* response of a rejection or up to the call of executeQuery
PostItem(r, f, max) ==
    LET in == f @@ [ip |-> RemoteAddress(r)]
        out == HandlePost(in)
    IN /\ alive
       /\ req[r].pc \in {"idle", "done"}
       /\ nreq < max
       /\ nreq' = nreq + 1
       /\ req' = [req EXCEPT ![r] =
                     [pc |-> IF out.query THEN "query" ELSE "done",
                      in |-> f, ip |-> RemoteAddress(r), session |-> out.session,
                      row |-> out.row, err |-> FALSE, status |-> out.status,
                      prior |-> "none"]]
       /\ UNCHANGED <<locations, clients, readyState, received, now, alive, listing, issued>>

\* the state of the triple of a row in the table
TripleState(tbl, row) ==
    LET hit == {e \in tbl : e.uuid = row.uuid /\ e.session = row.session.s
                            /\ e.step = row.step.s}
    IN IF hit = {} THEN "Absent"
       ELSE IF \E e \in hit : e.completed THEN "Done" ELSE "InProgress"

\* executeQuery: the database runs the statement; its callback is pending
ExecuteQuery(r) ==
    /\ alive
    /\ req[r].pc = "query"
    /\ IF InsertError(req[r].row)
       THEN /\ req' = [req EXCEPT ![r].pc = "callback", ![r].err = TRUE]
            /\ UNCHANGED <<locations, now>>
       ELSE /\ locations' = Upsert(locations, req[r].row, now + 1)
            /\ now' = now + 1
            /\ req' = [req EXCEPT ![r].pc = "callback",
                                  ![r].prior = TripleState(locations, req[r].row)]
    /\ UNCHANGED <<clients, readyState, received, nreq, alive, listing, issued>>

\* executeQuery: pg.connect or the query fails for a reason of its own
QueryFails(r) ==
    /\ alive
    /\ req[r].pc = "query"
    /\ req' = [req EXCEPT ![r].pc = "callback", ![r].err = TRUE]
    /\ UNCHANGED <<locations, clients, readyState, received, now, nreq, alive, listing, issued>>

\* a callback that emits the event before it looks at the error
CommitCallbackEmitsOnError(r) ==
    /\ alive
    /\ req[r].pc = "callback"
    /\ LET b == Broadcast(clients, readyState, received,
                          EventMessage(req[r].row, req[r].in))
       IN /\ received' = b.received
          /\ IF b.threw
             THEN /\ alive' = FALSE
                  /\ req' = [req EXCEPT ![r].pc = "lost"]
             ELSE /\ alive' = alive
                  /\ req' = [req EXCEPT ![r].pc = "done",
                                        ![r].status = IF req[r].err THEN 500 ELSE 200]
    /\ UNCHANGED <<locations, clients, readyState, now, nreq, listing, issued>>

\* the callback of executeQuery in the handler: 500 on an error, else
\* emitEvent and the success response; a send that throws leaves the callback
\* before res.send and, uncaught, ends the process
CommitCallback(r) ==
    /\ alive
    /\ req[r].pc = "callback"
    /\ IF req[r].err
       THEN /\ req' = [req EXCEPT ![r].pc = "done", ![r].status = 500]
            /\ UNCHANGED <<received, alive>>
       ELSE LET b == Broadcast(clients, readyState, received,
                               EventMessage(req[r].row, req[r].in))
            IN /\ received' = b.received
               /\ IF b.threw
                  THEN /\ alive' = FALSE
                       /\ req' = [req EXCEPT ![r].pc = "lost"]
                  ELSE /\ alive' = alive
                       /\ req' = [req EXCEPT ![r].pc = "done", ![r].status = 200]
    /\ UNCHANGED <<locations, clients, readyState, now, nreq, listing, issued>>

\* an observer connects to the WebSocket server
Connect(o) ==
    /\ alive
    /\ readyState[o] = "NONE"
    /\ readyState' = [readyState EXCEPT ![o] = "OPEN"]
    /\ clients' = Append(clients, o)
    /\ received' = [received EXCEPT ![o] = <<>>]
    /\ UNCHANGED <<locations, req, now, nreq, alive, listing, issued>>

\* the closing handshake of an observer's socket starts
StartClose(o) ==
    /\ alive
    /\ readyState[o] = "OPEN"
    /\ readyState' = [readyState EXCEPT ![o] = "CLOSING"]
    /\ UNCHANGED <<locations, req, clients, received, now, nreq, alive, listing, issued>>

\* the socket has closed: the server takes it out of wss.clients
Close(o) ==
    /\ alive
    /\ readyState[o] \in {"OPEN", "CLOSING"}
    /\ readyState' = [readyState EXCEPT ![o] = "NONE"]
    /\ clients' = SelectSeq(clients, LAMBDA c : c # o)
    /\ UNCHANGED <<locations, req, received, now, nreq, alive, listing, issued>>

Next ==
    \/ \E r \in Reqs, f \in Inputs : PostItem(r, f, MaxRequests)
    \/ \E r \in Reqs : ExecuteQuery(r)
    \/ \E r \in Reqs : QueryFails(r)
    \/ \E r \in Reqs : CommitCallback(r)
    \/ \E o \in Observers : Connect(o)
    \/ \E o \in Observers : StartClose(o)
    \/ \E o \in Observers : Close(o)

Spec == Init /\ [][Next]_vars

\* the table as earlier runs of the server left it: empty, or holding the row
\* of one committed submission
StoredTables ==
    {{}} \cup {Upsert({}, BuildRow(f @@ [ip |-> "10.0.0.9"],
                                   Str(f.authorization.session)), 0) :
                  f \in {g \in OwnInputs : g.stepIndex = Num(0)}}

InitStored ==
    /\ locations \in StoredTables
    /\ req = [r \in Reqs |-> Idle(r)]
    /\ clients = <<>>
    /\ readyState = [o \in Observers |-> "NONE"]
    /\ received = [o \in Observers |-> <<>>]
    /\ now = 0
    /\ nreq = 0
    /\ alive = TRUE
    /\ listing = NoListing
    /\ issued = NoneIssued

NextWide ==
    \/ \E r \in Reqs, f \in WideInputs : PostItem(r, f, MaxPosts)
    \/ \E r \in Reqs : ExecuteQuery(r)
    \/ \E r \in Reqs : QueryFails(r)
    \/ \E r \in Reqs : CommitCallback(r)
    \/ \E o \in Observers : Connect(o)
    \/ \E o \in Observers : StartClose(o)
    \/ \E o \in Observers : Close(o)

\* the server started on a table of earlier runs, under every kind of submission
SpecWide == InitStored /\ [][NextWide]_vars


(* ------------------------ GET /locations, /locations/latest ------------ *)

\* SELECT uuid, session, MAX(step_index) AS max_step FROM locations
\* WHERE completed GROUP BY uuid, session
MaxSteps(tbl) ==
    {[uuid |-> g[1], session |-> g[2],
      max_step |-> CHOOSE m \in {e.step_index : e \in {x \in tbl :
                        x.completed /\ x.uuid = g[1] /\ x.session = g[2]}} :
                     \A e \in tbl :
                        (e.completed /\ e.uuid = g[1] /\ e.session = g[2])
                        => e.step_index <= m] :
     g \in {<<e.uuid, e.session>> : e \in {x \in tbl : x.completed}}}

\* ... AS s JOIN locations l ON l.step_index = max_step AND s.uuid = l.uuid
\* AND s.session = l.session
Joined(tbl) ==
    {p[1] @@ [max_step |-> p[2].max_step] :
        p \in {q \in tbl \X MaxSteps(tbl) :
                  /\ q[1].step_index = q[2].max_step
                  /\ q[2].uuid = q[1].uuid
                  /\ q[2].session = q[1].session}}

\* ORDER BY date_modified DESC
RECURSIVE OrderByModifiedDesc(_)
OrderByModifiedDesc(rows) ==
    IF rows = {} THEN <<>>
    ELSE LET first == CHOOSE r \in rows :
                         \A q \in rows : q.date_modified <= r.date_modified
         IN <<first>> \o OrderByModifiedDesc(rows \ {first})

\* locationsQuery
locationsQuery(tbl) == OrderByModifiedDesc(Joined(tbl))

\* LIMIT 100
LatestLimit == 100
Limit(rows, n) == IF Len(rows) <= n THEN rows ELSE SubSeq(rows, 1, n)

\* locationsToGeoJson
locationsToGeoJson(rows) ==
    [type |-> "FeatureCollection",
     features |-> [i \in 1..Len(rows) |-> locationToFeature(rows[i])]]

\* GET /locations: the query runs and its callback answers with the rows
GetLocations ==
    /\ alive
    /\ listing' = [status |-> 200, rows |-> locationsQuery(locations),
                   body |-> locationsToGeoJson(locationsQuery(locations))]
    /\ UNCHANGED <<locations, req, clients, readyState, received, now, nreq,
                   alive, issued>>

\* GET /locations/latest: the same with LIMIT 100
GetLocationsLatest ==
    /\ alive
    /\ listing' = [status |-> 200,
                   rows |-> Limit(locationsQuery(locations), LatestLimit),
                   body |-> locationsToGeoJson(
                                Limit(locationsQuery(locations), LatestLimit))]
    /\ UNCHANGED <<locations, req, clients, readyState, received, now, nreq,
                   alive, issued>>

\* GET /locations or /locations/latest when executeQuery fails
GetLocationsFails ==
    /\ alive
    /\ listing' = [status |-> 500, rows |-> <<>>, body |-> Null]
    /\ UNCHANGED <<locations, req, clients, readyState, received, now, nreq,
                   alive, issued>>

\* submissions of the read runs: two steps with the same stepIndex, a lower
\* stepIndex, and a second session
ReadInputs ==
    {Feature("abc-123", Sign("s1", KEY), Str("locate"), Num(2), Bool(TRUE),
             Obj("d1"), Point(<<1, 2>>)),
     Feature("abc-123", Sign("s1", KEY), Str("describe"), Num(2), Bool(FALSE),
             Undefined, Undefined),
     Feature("abc-123", Sign("s1", KEY), Str("describe"), Num(0), Bool(TRUE),
             Obj("d2"), Undefined),
     Feature("abc-123", Sign("s2", KEY), Str("locate"), Num(0), Bool(TRUE),
             Obj("d1"), Undefined)}

NextRead ==
    \/ \E r \in Reqs, f \in ReadInputs : PostItem(r, f, MaxRequests)
    \/ \E r \in Reqs : ExecuteQuery(r)
    \/ \E r \in Reqs : QueryFails(r)
    \/ \E r \in Reqs : CommitCallback(r)
    \/ GetLocations
    \/ GetLocationsLatest
    \/ GetLocationsFails

\* the server under submissions and reads of the map
SpecRead == Init /\ [][NextRead]_vars

(* ------------------------------ GET /items ----------------------------- *)

\* the strings randomString can return
RandomStrings == {"n1", "n2"}

\* a middleware that signs a new session whatever the request presents
AlwaysCreateToken(authorization, random) ==
    [header |-> Sign(random, KEY), generated |-> random]

\* checkOrCreateToken: the Authorization header of the response, and the
\* session it generated ("" when it generated none)
checkOrCreateToken(authorization, random) ==
    IF ~Truthy(authorization)
    THEN [header |-> Sign(random, KEY), generated |-> random]
    ELSE [header |-> authorization, generated |-> ""]

\* sendItem: 404 for a uuid that is not in the catalog, else the item
sendItem(uuid) ==
    IF ~HasItem(uuid) THEN 404 ELSE 200

\* the response of a GET on an item: checkOrCreateToken, then sendItem
ItemResponse(uuid, authorization, random) ==
    LET t == checkOrCreateToken(authorization, random)
    IN [status |-> sendItem(uuid), presented |-> authorization,
        returned |-> t.header, generated |-> t.generated]

\* GET /items/:uuid
GetItem ==
    /\ alive
    /\ \E uuid \in DOMAIN items \cup {"zzz-000"}, h \in Headers, n \in RandomStrings :
          issued' = ItemResponse(uuid, h, n)
    /\ UNCHANGED <<locations, req, clients, readyState, received, now, nreq,
                   alive, listing>>

\* GET /items/random: the uuid is drawn from the catalog
GetRandomItem ==
    /\ alive
    /\ \E uuid \in DOMAIN items, h \in Headers, n \in RandomStrings :
          issued' = ItemResponse(uuid, h, n)
    /\ UNCHANGED <<locations, req, clients, readyState, received, now, nreq,
                   alive, listing>>

\* submissions that carry the Authorization header of the last GET response
TokenInputs(authorization) ==
    {Feature("abc-123", authorization, Str("locate"), Num(0), Bool(TRUE),
             Obj("d1"), Undefined),
     Feature("abc-123", authorization, Str("locate"), Num(2), Bool(FALSE),
             Undefined, Undefined)}

NextToken ==
    \/ GetItem
    \/ GetRandomItem
    \/ \E r \in Reqs, f \in TokenInputs(issued.returned) :
          issued.status # 0 /\ PostItem(r, f, MaxPosts)
    \/ \E r \in Reqs : ExecuteQuery(r)
    \/ \E r \in Reqs : QueryFails(r)
    \/ \E r \in Reqs : CommitCallback(r)

\* the server under item requests and submissions that use their tokens
SpecToken == Init /\ [][NextToken]_vars

(* ------------------------ runs over several keys ----------------------- *)

\* submissions over two items, two sessions and two steps, one that is not
\* completed, and the ones that must leave no row: under a token the server
\* did not sign (for s2, and for a session of the client's choosing), without
\* a token, for an item that is not in the catalog, and without a step
KeyInputs ==
    {Feature(u, Sign(s, KEY), Str(t), Num(0), Bool(TRUE), Obj("d1"), Undefined) :
        u \in DOMAIN items, s \in Sessions, t \in {"locate", "describe"}}
    \cup {Feature("abc-123", Sign("s1", KEY), Str("locate"), Num(2), Bool(FALSE),
                  Undefined, Undefined)}
    \cup {Feature("abc-123", a, Str("locate"), Num(2), Bool(TRUE), Obj("d2"),
                  Undefined) :
            a \in {Sign("s2", "other-key"), Sign("s3", "other-key"), Undefined}}
    \cup {Feature("zzz-999", Sign("s1", KEY), Str("locate"), Num(0), Bool(TRUE),
                  Obj("d1"), Undefined)}
    \cup {Feature("abc-123", Sign("s1", KEY), st, Num(0), Bool(TRUE), Obj("d1"),
                  Undefined) : st \in {Undefined, Str("")}}

NextKeys ==
    \/ \E r \in Reqs, f \in KeyInputs : PostItem(r, f, MaxRequests)
    \/ \E r \in Reqs : ExecuteQuery(r)
    \/ \E r \in Reqs : QueryFails(r)
    \/ \E r \in Reqs : CommitCallback(r)

\* the server under submissions of two sessions to several items and steps
SpecKeys == Init /\ [][NextKeys]_vars

(* --------------------------- runs with two observers ------------------- *)

HubObservers == {"o1", "o2"}

\* submissions of the runs with two observers: a completed one with a
\* geometry, a non-completed one, and one the database refuses
HubInputs ==
    {Feature("abc-123", Sign("s1", KEY), Str("locate"), Num(0), Bool(TRUE),
             Obj("d1"), Point(<<1, 2>>)),
     Feature("abc-123", Sign("s1", KEY), Str("locate"), Num(2), Bool(FALSE),
             Undefined, Undefined),
     Feature("abc-123", Sign("s1", KEY), Str("locate"), Null, Bool(TRUE),
             Obj("d2"), Undefined)}

InitHub ==
    /\ locations = {}
    /\ req = [r \in Reqs |-> Idle(r)]
    /\ clients = <<>>
    /\ readyState = [o \in HubObservers |-> "NONE"]
    /\ received = [o \in HubObservers |-> <<>>]
    /\ now = 0
    /\ nreq = 0
    /\ alive = TRUE
    /\ listing = NoListing
    /\ issued = NoneIssued

NextHub ==
    \/ \E r \in Reqs, f \in HubInputs : PostItem(r, f, MaxRequests)
    \/ \E r \in Reqs : ExecuteQuery(r)
    \/ \E r \in Reqs : QueryFails(r)
    \/ \E r \in Reqs : CommitCallback(r)
    \/ \E o \in HubObservers : Connect(o)
    \/ \E o \in HubObservers : StartClose(o)
    \/ \E o \in HubObservers : Close(o)

\* the server with two observers coming and going
SpecHub == InitHub /\ [][NextHub]_vars

(* ------------------------------- claims -------------------------------- *)

\* a row of the table has the key of the row a request submits
HasKeyOf(e, row) ==
    e.uuid = row.uuid /\ e.session = row.session.s /\ e.step = row.step.s

\* in this step the database runs the statement of request r without error
Commits(r) ==
    req[r].pc = "query" /\ req'[r].pc = "callback" /\ ~req'[r].err

\* request r has had its statement run without error
Committed(r) ==
    req[r].pc \in {"callback", "done", "lost"} /\ req[r].prior # "none"

\* C1 (as claimed): once a stored row is completed, every later step leaves
\* its completed flag and its data as they are.
C1_CompletedRowFrozen ==
    [][\A e \in locations : e.completed =>
          \E e2 \in locations' :
              SameKey(e2, e) /\ e2.completed = e.completed /\ e2.data = e.data]_vars

\* C2: a stored row that is completed stays in the table and stays completed
\* in every step, whatever the requests in flight.
C2_DoneIsTerminal ==
    [][\A e \in locations : e.completed =>
          \E e2 \in locations' : SameKey(e2, e) /\ e2.completed]_vars

\* C2's case: a non-completed submission was committed on a triple whose row
\* was completed, and the row is still completed.
C2_Witness ==
    \E r \in Reqs :
        /\ Committed(r)
        /\ req[r].prior = "Done"
        /\ ~req[r].row.completed.b
        /\ \E e \in locations : HasKeyOf(e, req[r].row) /\ e.completed

\* C3 (as claimed): every message an observer has received is the feature of
\* a completed submission.
C3_OnlyCompletedBroadcast ==
    \A o \in Observers : \A i \in 1..Len(received[o]) :
        Truthy(received[o][i].json.properties.completed)

\* C4 (as claimed): a stored row that is not completed has neither data nor
\* a geometry.
C4_PayloadOnlyWhenCompleted ==
    \A e \in locations : ~e.completed => IsNull(e.data) /\ IsNull(e.geometry)

\* C5 (as claimed): when a non-completed submission is committed on a triple
\* whose row is not completed, the row takes the submission's stepIndex and
\* client and the time of the statement, and stays not completed.
C5_MetadataRefreshed ==
    [][\A r \in Reqs :
          (/\ Commits(r)
           /\ ~req[r].row.completed.b
           /\ TripleState(locations, req[r].row) = "InProgress")
          => \E e \in locations' :
                /\ HasKeyOf(e, req[r].row)
                /\ ~e.completed
                /\ 2 * e.step_index = req[r].in.stepIndex.twice
                /\ e.client = [t |-> "obj", ip |-> req[r].ip]
                /\ e.date_modified = now']_vars

\* C5 (amended): when a non-completed submission is committed on a triple
\* whose row is not completed, the table is left as it was: the row keeps the
\* stepIndex, client and modification time it had, and stays not completed.
C5_NonCompletedLeavesRow ==
    [][\A r \in Reqs :
          (/\ Commits(r)
           /\ ~req[r].row.completed.b
           /\ TripleState(locations, req[r].row) = "InProgress")
          => locations' = locations]_vars

\* C5's case: a non-completed submission was committed on a triple whose row
\* was not completed, and the row holds another stepIndex than the submitted.
C5_Witness ==
    \E r \in Reqs :
        /\ Committed(r)
        /\ req[r].prior = "InProgress"
        /\ ~req[r].row.completed.b
        /\ \E e \in locations :
              /\ HasKeyOf(e, req[r].row)
              /\ ~e.completed
              /\ 2 * e.step_index # req[r].in.stepIndex.twice

\* C6: when a completed submission is committed on a triple whose row is not
\* completed, the row becomes completed and holds the submission's stepIndex,
\* data, client, geometry and the centroid of that geometry.
C6_CompletedWinsOverInProgress ==
    [][\A r \in Reqs :
          (/\ Commits(r)
           /\ req[r].row.completed.b
           /\ TripleState(locations, req[r].row) = "InProgress")
          => \E e \in locations' :
                /\ HasKeyOf(e, req[r].row)
                /\ e.completed
                /\ 2 * e.step_index = req[r].in.stepIndex.twice
                /\ e.data = req[r].in.data
                /\ e.client = [t |-> "obj", ip |-> req[r].ip]
                /\ e.geometry = (IF Truthy(req[r].in.geometry)
                                 THEN req[r].in.geometry ELSE Null)
                /\ e.centroid = (IF Truthy(req[r].in.geometry)
                                 THEN [t |-> "point",
                                       x |-> req[r].in.geometry.coordinates[1],
                                       y |-> req[r].in.geometry.coordinates[2]]
                                 ELSE Null)]_vars

\* C6's case: a completed submission with a geometry was committed on a
\* triple whose row was not completed.
C6_Witness ==
    \E r \in Reqs :
        /\ Committed(r)
        /\ req[r].prior = "InProgress"
        /\ req[r].row.completed.b
        /\ Truthy(req[r].in.geometry)
        /\ \E e \in locations : HasKeyOf(e, req[r].row) /\ e.completed


\* the request carries a token the server signed
Authenticated(in) == Truthy(in.authorization) /\ in.authorization.sig = KEY

\* a JavaScript value that is a non-negative integer
NonNegInt(v) == v.t = "num" /\ v.twice >= 0 /\ v.twice % 2 = 0

\* request r was answered with a 404 or a 406
Rejected(r) == req[r].status \in {404, 406}

\* C7: a request answered 404 or 406 has ended without its statement being
\* issued or run, and the step that answers it changes neither the table
\* nor any observer's inbox.
C7_RejectedTouchesNothing ==
    /\ [](\A r \in Reqs : Rejected(r) => req[r].pc = "done" /\ req[r].prior = "none")
    /\ [][\A r \in Reqs :
            (req'[r] # req[r] /\ req'[r].status \in {404, 406})
            => locations' = locations /\ received' = received]_vars

\* C7's case: a submission whose geometry fails the GeoJSON validation was
\* answered 406 while the table holds a row and an observer is connected.
C7_Witness ==
    \E r \in Reqs :
        /\ req[r].status = 406
        /\ Truthy(req[r].in.geometry)
        /\ Len(req[r].in.geometry.coordinates) < 2
        /\ locations # {}
        /\ \E o \in Observers : readyState[o] = "OPEN"

\* C8: a request without a token, or with a token not signed by the server's
\* key, is answered 401 at once whatever its item id and body: it has no
\* session, its statement is never issued, and the step that answers it
\* changes neither the table nor any observer's inbox.
C8_Unauthorized ==
    /\ [](\A r \in Reqs :
            (req[r].pc # "idle" /\ ~Authenticated(req[r].in))
            => /\ req[r].status = 401
               /\ req[r].pc = "done"
               /\ req[r].session = Undefined
               /\ req[r].prior = "none")
    /\ [][\A r \in Reqs :
            (req'[r] # req[r] /\ ~Authenticated(req'[r].in))
            => locations' = locations /\ received' = received]_vars

\* C8's case: a request with a token signed by another key, for an item of
\* the catalog, was answered while the table holds a row.
C8_Witness ==
    \E r \in Reqs :
        /\ req[r].pc = "done"
        /\ Truthy(req[r].in.authorization)
        /\ req[r].in.authorization.sig # KEY
        /\ HasItem(req[r].in.uuid)
        /\ req[r].status = 401
        /\ locations # {}

\* C9: an authenticated request on an item of the catalog, with a step and a
\* non-negative integer stepIndex, is answered 406 when it is completed
\* without data, and when it is not completed and carries a data object.
C9_InconsistentPayloadRejected ==
    \A r \in Reqs :
        (/\ req[r].pc # "idle"
         /\ Authenticated(req[r].in)
         /\ req[r].in.uuid \in DOMAIN items
         /\ req[r].in.step.t = "str"
         /\ NonNegInt(req[r].in.stepIndex)
         /\ \/ req[r].in.completed = Bool(TRUE) /\ req[r].in.data \in {Undefined, Null}
            \/ req[r].in.completed = Bool(FALSE) /\ req[r].in.data.t = "obj")
        => req[r].status = 406 /\ req[r].pc = "done"

\* C9's case: a request that is not completed and carries a data object was
\* answered.
C9_Witness ==
    \E r \in Reqs :
        /\ req[r].pc = "done"
        /\ Authenticated(req[r].in)
        /\ HasItem(req[r].in.uuid)
        /\ req[r].in.completed = Bool(FALSE)
        /\ req[r].in.data = Obj("d1")
        /\ req[r].status = 406

\* C10 (as claimed): an authenticated request on an item of the catalog whose
\* step is absent or whose stepIndex is not a non-negative integer is
\* answered 406.
C10_BadStepRejected ==
    \A r \in Reqs :
        (/\ req[r].pc = "done"
         /\ Authenticated(req[r].in)
         /\ req[r].in.uuid \in DOMAIN items
         /\ (req[r].in.step.t # "str" \/ ~NonNegInt(req[r].in.stepIndex)))
        => req[r].status = 406


\* the greatest stepIndex among the completed rows of a session
MaxCompletedStep(tbl, session) ==
    CHOOSE m \in {e.step_index : e \in {x \in tbl : x.completed /\ x.session = session}} :
        \A e \in tbl : (e.completed /\ e.session = session) => e.step_index <= m

\* C11 (as claimed): a GET /locations answers with at most one row per
\* session, each a completed row whose stepIndex is the greatest among the
\* completed rows of its session.
C11_LatestPerSession ==
    [][(listing' # listing /\ listing'.status = 200) =>
          LET rows == listing'.rows IN
          /\ \A i, j \in 1..Len(rows) : rows[i].session = rows[j].session => i = j
          /\ \A i \in 1..Len(rows) :
                /\ rows[i].completed
                /\ rows[i].step_index = MaxCompletedStep(locations, rows[i].session)]_vars


\* in this step the commit callback of request r runs after a statement
\* without error, so that it publishes
Publishes(r) ==
    req[r].pc = "callback" /\ ~req[r].err /\ req'[r].pc # "callback"

\* C12 (as claimed): when a commit callback publishes while the socket of a
\* registered observer is not open, every registered observer whose socket
\* is open still receives the message and nothing is raised to the callback.
C12_BestEffortPublish ==
    [][\A r \in Reqs :
          (/\ Publishes(r)
           /\ \E i \in 1..Len(clients) : readyState[clients[i]] # "OPEN")
          => /\ alive'
             /\ \A i \in 1..Len(clients) :
                   readyState[clients[i]] = "OPEN"
                   => received'[clients[i]] =
                         Append(received[clients[i]],
                                EventMessage(req[r].row, req[r].in))]_vars

\* C13 (as claimed): a request whose statement has run without error either
\* still has its callback pending or has been answered 200.
C13_CommittedIsAcknowledged ==
    \A r \in Reqs :
        Committed(r) =>
            \/ req[r].pc = "callback"
            \/ req[r].pc = "done" /\ req[r].status = 200

\* C14 (as claimed): when both request slots have had the identical
\* completed Feature committed, each of them is answered 200 once its
\* callback has run, the table holds exactly one row for the triple, and
\* every observer has received at most two messages, all with the content
\* of that Feature.
C14_DoubleSubmission ==
    \A r1, r2 \in Reqs :
        (/\ r1 # r2
         /\ Committed(r1) /\ Committed(r2)
         /\ req[r1].in = req[r2].in
         /\ Truthy(req[r1].in.completed))
        => /\ \A r \in {r1, r2} :
                 \/ req[r].pc = "callback"
                 \/ req[r].pc = "done" /\ req[r].status = 200
           /\ Cardinality({e \in locations : HasKeyOf(e, req[r1].row)}) = 1
           /\ \A o \in DOMAIN received :
                 /\ Len(received[o]) <= 2
                 /\ \A i \in 1..Len(received[o]) :
                       received[o][i] = EventMessage(req[r1].row, req[r1].in)

\* C15: the callback of a statement that failed answers 500 and leaves every
\* observer's inbox as it is, and a message is only ever appended to an
\* inbox by the callback of a request whose statement has run without error.
C15_NoBroadcastOnFailure ==
    /\ [][\A r \in Reqs :
            (req[r].pc = "callback" /\ req[r].err /\ req'[r] # req[r])
            => /\ req'[r].pc = "done"
               /\ req'[r].status = 500
               /\ received' = received]_vars
    /\ [][(\E o \in DOMAIN received :
              received'[o] # received[o] /\ received'[o] # <<>>)
          => \E r \in Reqs : Publishes(r) /\ Committed(r)]_vars

\* a failed statement has been answered 500 while an observer was listening
\* and got nothing
C15_Witness ==
    \E r \in Reqs, o \in DOMAIN received :
        /\ req[r].pc = "done" /\ req[r].err /\ req[r].status = 500
        /\ readyState[o] = "OPEN"
        /\ received[o] = <<>>

\* C18: an observer's inbox only changes by being emptied when the observer
\* connects, or by the message of the commit callback that runs in that step
\* being appended at its end: the inbox lists the messages in the order in
\* which the callbacks ran.
C18_DeliveryInPublishOrder ==
    [][\A o \in DOMAIN received :
          received'[o] # received[o]
          => \/ received'[o] = <<>> /\ readyState[o] = "NONE"
             \/ \E r \in Reqs :
                   /\ Publishes(r)
                   /\ received'[o] =
                         Append(received[o], EventMessage(req[r].row, req[r].in))]_vars

\* an observer has received two different messages, one after the other
C18_Witness ==
    \E o \in DOMAIN received :
        /\ readyState[o] = "OPEN"
        /\ Len(received[o]) >= 2
        /\ received[o][1] # received[o][2]

\* a table with the modification time of every row blanked
WithoutModified(tbl) == {[e EXCEPT !.date_modified = 0] : e \in tbl}

\* the stored row of the triple of request q is as the submission of q left it
LeftBy(q, tbl) ==
    \E e \in tbl :
        /\ HasKeyOf(e, req[q].row)
        /\ [e EXCEPT !.date_modified = 0, !.date_created = 0] = Proposed(req[q].row, 0)

\* C16 (as claimed): when a completed Feature has been stored and answered
\* 200 and the identical Feature is then committed again, the table after
\* the second commit equals the table before it apart from modification
\* times, and both submissions broadcast the same message.
C16_ResubmissionIdempotent ==
    [][\A r, q \in Reqs :
          (/\ r # q
           /\ Commits(r)
           /\ req[q].pc = "done" /\ req[q].status = 200
           /\ req[q].in = req[r].in
           /\ Truthy(req[r].in.completed)
           /\ LeftBy(q, locations))
          => /\ WithoutModified(locations') = WithoutModified(locations)
             /\ EventMessage(req'[r].row, req'[r].in) =
                   EventMessage(req[q].row, req[q].in)]_vars

\* C17: the response to a GET on an item that presented no credential
\* carries a token that checkToken accepts and whose session is the one
\* generated for this request; the response to one that presented a
\* credential carries that credential unchanged, and no session was
\* generated.
C17_IssueOrPassthrough ==
    issued.status # 0 =>
        IF ~Truthy(issued.presented)
        THEN /\ issued.generated \in RandomStrings
             /\ CheckToken(issued.returned) =
                   [status |-> 0, session |-> Str(issued.generated)]
        ELSE /\ issued.returned = issued.presented
             /\ issued.generated = ""

\* a token issued to a request without credential has been used for a
\* submission that was stored under the generated session, and a later GET
\* that presents a credential has got it back
C17_Witness ==
    /\ issued.status = 200
    /\ Truthy(issued.presented)
    /\ issued.returned = issued.presented
    /\ \E r \in Reqs, e \in locations :
          /\ req[r].status = 200
          /\ e.session \in RandomStrings
          /\ HasKeyOf(e, req[r].row)

\* the stored row e has the item and step of the submission and the session
\* of its token
KeyOfRequest(e, in) ==
    /\ e.uuid = in.uuid
    /\ e.session = in.authorization.session
    /\ e.step = in.step.s

\* C19: every row that a step adds to the table, takes out of it or changes
\* has the item, the step and the token's session of a request with a
\* verified token whose statement runs in that step; all other rows stay as
\* they are.
C19_SessionIsolation ==
    [][\A e \in (locations \cup locations') \ (locations \cap locations') :
          \E r \in Reqs :
              /\ Commits(r)
              /\ Authenticated(req[r].in)
              /\ KeyOfRequest(e, req[r].in)]_vars

\* two sessions have each stored their own row for the same item and step
C19_Witness ==
    \E e1, e2 \in locations :
        /\ e1.uuid = e2.uuid /\ e1.step = e2.step
        /\ e1.session # e2.session
        /\ \A r \in Reqs : Committed(r) /\ req[r].status = 200

====
